---- MODULE Spec2Model ----
(***************************************************************************)
(* Model of sample_data/generate_sample_data.py: the HR sample-data        *)
(* generator.  main() calls eight table generators in a fixed order; each  *)
(* generator loops `count` times, builds one record per iteration from     *)
(* draws of the shared random source (and, for some tables, from the wall  *)
(* clock), appends it to a list and finally writes the list to one file.   *)
(*                                                                         *)
(* Representation.                                                         *)
(*  - A list being built is kept as its length `i` and the record appended *)
(*    last, `rec`; records are never changed after they are appended, so   *)
(*    every row of every table is the value of `rec` in some state.        *)
(*  - Several runs of the program started from the same seed are kept side *)
(*    by side: `now` and `rec` are functions of the run.  The runs consume *)
(*    the same random stream (one draw `d` per step serves all of them)    *)
(*    and read their own wall clock.                                       *)
(*  - Text is a sequence of one-character strings; dates are turned into   *)
(*    text the way strftime does.  Names that are Chinese in the source    *)
(*    are written in English (the module is ASCII).                        *)
(*  - Amounts are integers: money in cents, days in tenths, hours in       *)
(*    hundredths; round(x, n) is the rounding of the exact quotient.       *)
(***************************************************************************)
EXTENDS Integers, Sequences, FiniteSets, TLC

VARIABLES entry, pc, gen, count, i, rec, files, summary, caught, now

vars == <<entry, pc, gen, count, i, rec, files, summary, caught, now>>

(***************************************************************************)
(* Bounds of the model and constants of the program.                       *)
(***************************************************************************)
\* largest `count` a generator is called with on its own (besides 20)
MaxCount == 2
\* number of consecutive days the wall clock may show
MaxClockDays == 2
\* main() calls every generator with 20
Count == 20
\* str(..).zfill(4)
IdWidth == 4

(***************************************************************************)
(* Text: str(n), s.zfill(w), and the prefixes.                             *)
(***************************************************************************)
Digits == <<"0", "1", "2", "3", "4", "5", "6", "7", "8", "9">>

RECURSIVE Str(_)
Str(n) ==
    IF n < 10 THEN <<Digits[n + 1]>> ELSE Str(n \div 10) \o <<Digits[(n % 10) + 1]>>

ZFill(s, w) ==
    IF Len(s) >= w THEN s ELSE [k \in 1..(w - Len(s)) |-> "0"] \o s

EmpNo(n) == <<"E", "M", "P">> \o ZFill(Str(n), IdWidth)

(***************************************************************************)
(* datetime: a value is [ord, hour, minute, second], ord the proleptic     *)
(* Gregorian ordinal of the day (0001-01-01 is 1).                         *)
(***************************************************************************)
ToOrdinal(y, m, d) ==
    LET yy  == IF m <= 2 THEN y - 1 ELSE y
        era == yy \div 400
        yoe == yy - era * 400
        mp  == IF m > 2 THEN m - 3 ELSE m + 9
        doy == (153 * mp + 2) \div 5 + d - 1
        doe == yoe * 365 + yoe \div 4 - yoe \div 100 + doy
    IN  era * 146097 + doe - 305

FromOrdinal(n) ==
    LET z   == n + 305
        era == z \div 146097
        doe == z - era * 146097
        yoe == (doe - doe \div 1460 + doe \div 36524 - doe \div 146096) \div 365
        doy == doe - (365 * yoe + yoe \div 4 - yoe \div 100)
        mp  == (5 * doy + 2) \div 153
        d   == doy - (153 * mp + 2) \div 5 + 1
        m   == IF mp < 10 THEN mp + 3 ELSE mp - 9
        y   == yoe + era * 400 + (IF m <= 2 THEN 1 ELSE 0)
    IN  [year |-> y, month |-> m, day |-> d]

\* dt + timedelta(days=k), dt - timedelta(days=k)
PlusDays(dt, k) == [dt EXCEPT !.ord = @ + k]

\* dt.replace(hour=h, minute=m): the second is kept
Replace(dt, h, m) == [dt EXCEPT !.hour = h, !.minute = m]

SecondOfDay(dt) == dt.hour * 3600 + dt.minute * 60 + dt.second

\* (a - b).seconds: a timedelta is normalised to days and 0 <= seconds < 86400
DeltaSeconds(a, b) ==
    ((a.ord - b.ord) * 86400 + SecondOfDay(a) - SecondOfDay(b)) % 86400

\* (a - b).days
DeltaDays(a, b) ==
    ((a.ord - b.ord) * 86400 + SecondOfDay(a) - SecondOfDay(b)) \div 86400

\* strftime('%Y-%m-%d'), '%Y-%m', '%Y%m', '%H:%M:%S', '%Y-%m-%d %H:%M:%S'
StrfYmd(dt) ==
    LET c == FromOrdinal(dt.ord)
    IN  ZFill(Str(c.year), 4) \o <<"-">> \o ZFill(Str(c.month), 2)
          \o <<"-">> \o ZFill(Str(c.day), 2)

StrfYm(dt) ==
    LET c == FromOrdinal(dt.ord)
    IN  ZFill(Str(c.year), 4) \o <<"-">> \o ZFill(Str(c.month), 2)

StrfYmCompact(dt) ==
    LET c == FromOrdinal(dt.ord)
    IN  ZFill(Str(c.year), 4) \o ZFill(Str(c.month), 2)

StrfHMS(dt) ==
    ZFill(Str(dt.hour), 2) \o <<":">> \o ZFill(Str(dt.minute), 2)
      \o <<":">> \o ZFill(Str(dt.second), 2)

StrfFull(dt) == StrfYmd(dt) \o <<" ">> \o StrfHMS(dt)

\* random_date(start, end) with the draw r of randrange(days_between)
random_date(start, end, r) == PlusDays(start, r)

days_between(start, end) == DeltaDays(end, start)

(***************************************************************************)
(* round(x, n) of the exact quotient num/den (in units of 10^-n).  The     *)
(* nearest integer; when the quotient lies exactly half way the float      *)
(* product the program rounds lies just above or just below the half,      *)
(* depending on the representation error, so `up` (0 or 1) chooses.        *)
(***************************************************************************)
Round(num, den, up) ==
    LET q == num \div den
        r == num % den
    IN  IF 2 * r > den THEN q + 1
        ELSE IF 2 * r < den THEN q
        ELSE q + up

(***************************************************************************)
(* The wall clock: the values datetime.now() may return.                   *)
(***************************************************************************)
FirstDay == ToOrdinal(2025, 12, 31)

ClockTimes == { <<0, 0, 0>>, <<23, 59, 59>> }

Clocks ==
    { [ord |-> FirstDay + k, hour |-> t[1], minute |-> t[2], second |-> t[3]] :
        k \in 0..(MaxClockDays - 1), t \in ClockTimes }

ProcessStart == [ord |-> FirstDay, hour |-> 0, minute |-> 0, second |-> 0]

NotBefore(a, b) ==
    \/ a.ord > b.ord
    \/ a.ord = b.ord /\ SecondOfDay(a) >= SecondOfDay(b)

\* the readings each run may take next, among the clock values C: a clock
\* does not go back
Readings(C) == { t \in [DOMAIN now -> C] : \A r \in DOMAIN now : NotBefore(t[r], now[r]) }

(***************************************************************************)
(* Data pools.                                                             *)
(***************************************************************************)
DEPARTMENTS ==
    <<"Technology", "Product", "HumanResources", "Finance",
      "Marketing", "Operations", "Sales", "CustomerService">>

POSITIONS_BY_DEPT ==
    [ Technology      |-> <<"JavaEngineer", "PythonEngineer", "FrontendEngineer",
                            "TestEngineer", "OpsEngineer", "Architect">>,
      Product         |-> <<"ProductManager", "ProductAssistant", "ProductOperations",
                            "UIDesigner", "UXDesigner">>,
      HumanResources  |-> <<"HRSpecialist", "RecruitingManager", "PayrollSpecialist",
                            "HRBP", "TrainingSpecialist">>,
      Finance         |-> <<"Accountant", "Cashier", "FinanceManager",
                            "AuditSpecialist", "CostAccountant">>,
      Marketing       |-> <<"MarketingSpecialist", "BrandManager", "MarketingPlanner",
                            "ChannelManager", "BusinessDevelopment">>,
      Operations      |-> <<"OperationsSpecialist", "DataAnalyst", "OperationsManager",
                            "UserOperations", "ContentOperations">>,
      Sales           |-> <<"SalesRep", "KeyAccountManager", "SalesDirector",
                            "SalesAssistant", "ChannelSales">>,
      CustomerService |-> <<"ServiceSpecialist", "ServiceSupervisor",
                            "AfterSalesSpecialist", "ServiceManager">> ]

Range(s) == { s[k] : k \in 1..Len(s) }

Max(a, b) == IF a >= b THEN a ELSE b

\* the two ends of a range, where a specification samples it
Ends(lo, hi) == {lo, hi}

(***************************************************************************)
(* main(): the generators in call order, and what each is called with.     *)
(***************************************************************************)
GENERATORS ==
    <<"generate_employees", "generate_departments", "generate_attendance",
      "generate_annual_leaves", "generate_social_security",
      "generate_business_trips", "generate_meal_records", "generate_onboarding">>

IndexOf(g) == CHOOSE k \in 1..Len(GENERATORS) : GENERATORS[k] = g

NoRec == [table |-> "none"]

\* generate_departments takes no count: it walks the 8 entries of dept_info
dept_info ==
    <<[name |-> "Technology",      code |-> "TECH",  head_count |-> 25],
      [name |-> "Product",         code |-> "PROD",  head_count |-> 15],
      [name |-> "HumanResources",  code |-> "HR",    head_count |-> 8],
      [name |-> "Finance",         code |-> "FIN",   head_count |-> 10],
      [name |-> "Marketing",       code |-> "MKT",   head_count |-> 12],
      [name |-> "Operations",      code |-> "OPS",   head_count |-> 18],
      [name |-> "Sales",           code |-> "SALES", head_count |-> 20],
      [name |-> "CustomerService", code |-> "CS",    head_count |-> 15]>>

CountOf(g) == IF g = "generate_departments" THEN Len(dept_info) ELSE Count

\* the first generator main() calls
FirstGenerator == GENERATORS[1]

\* what the call after generator number k is: the next generator, or none
HasNext(k) == k < Len(GENERATORS)

NextGenerator(k) == k + 1

(***************************************************************************)
(* Exceptions.  The library calls under a generator (DataFrame, to_excel,  *)
(* print) may raise; main() has one handler, `except Exception`.           *)
(***************************************************************************)
ExceptionClasses == {"Exception", "OSError", "ImportError", "ValueError", "MemoryError"}

Raised == {"OSError", "ImportError", "ValueError"}

CatchesOSErrorOnly(exc) == exc = "OSError"

Catches(exc) == exc \in ExceptionClasses

(***************************************************************************)
(* State after construction.  entry is the function called: main, or one   *)
(* generator called on its own with count c.  runs is the set of runs.     *)
(***************************************************************************)
InitCall(e, counts, runs, clocks) ==
    /\ entry = e
    /\ pc = "gen"
    /\ gen = IF e = "main" THEN IndexOf(FirstGenerator) ELSE IndexOf(e)
    /\ count \in counts
    /\ i = 0
    /\ rec = [r \in runs |-> NoRec]
    /\ files = <<>>
    /\ summary = FALSE
    /\ caught = FALSE
    /\ now \in [runs -> clocks]

Running(g) == pc = "gen" /\ GENERATORS[gen] = g /\ i < count

(***************************************************************************)
(* 1. generate_employees: one iteration of the loop.                       *)
(***************************************************************************)
PositionChoices(department) == Range(POSITIONS_BY_DEPT[department])

EmployeeDraws ==
    UNION { { [department |-> dep, position |-> p] : p \in PositionChoices(dep) } :
            dep \in Range(DEPARTMENTS) }

employee_numbered_from_zero(k, d) ==
    [ table      |-> "generate_employees",
      emp_no     |-> EmpNo(k),
      department |-> d.department,
      position   |-> d.position ]

employee(k, d) ==
    [ table      |-> "generate_employees",
      emp_no     |-> EmpNo(k + 1),
      department |-> d.department,
      position   |-> d.position ]

EmployeesRow ==
    /\ Running("generate_employees")
    /\ \E d \in EmployeeDraws :
          rec' = [r \in DOMAIN now |-> employee(i, d)]
    /\ i' = i + 1
    /\ UNCHANGED <<entry, pc, gen, count, files, summary, caught, now>>

(***************************************************************************)
(* 2. generate_departments: one iteration over dept_info.items().          *)
(***************************************************************************)
FoundedFrom == [ord |-> ToOrdinal(2015, 1, 1), hour |-> 0, minute |-> 0, second |-> 0]

FoundedTo == [ord |-> ToOrdinal(2020, 12, 31), hour |-> 0, minute |-> 0, second |-> 0]

DepartmentDraws(offs) == [ founded : offs ]

department(k, d) ==
    [ table   |-> "generate_departments",
      name    |-> dept_info[k + 1].name,
      code    |-> dept_info[k + 1].code,
      parent  |-> IF dept_info[k + 1].name # "GeneralOffice" THEN "GeneralOffice" ELSE "",
      head_count |-> dept_info[k + 1].head_count,
      founded |-> StrfYmd(random_date(FoundedFrom, FoundedTo, d.founded)),
      status  |-> "enabled" ]

DepartmentsRow(D) ==
    /\ Running("generate_departments")
    /\ \E d \in D :
          rec' = [r \in DOMAIN now |-> department(i, d)]
    /\ i' = i + 1
    /\ UNCHANGED <<entry, pc, gen, count, files, summary, caught, now>>

(***************************************************************************)
(* 3. generate_attendance: one iteration of the loop, at clock reading t.  *)
(***************************************************************************)
AttendanceDraws(backs, ins, out_hours, out_minutes, picks, emps) ==
    { d \in [ day_back : backs, in_minute : ins, out_hour : out_hours,
              out_minute : out_minutes, status_pick : picks, emp : emps ] :
        d.out_hour = 17 => d.out_minute >= 30 }

check_in_hour(d) == IF d.in_minute > 30 THEN 9 ELSE 8

check_in_minute(d) == IF d.in_minute > 30 THEN d.in_minute - 30 ELSE d.in_minute

late_minutes(d) ==
    IF check_in_hour(d) = 9 THEN Max(0, check_in_minute(d) - 30) ELSE 0

early_minutes(d) == Max(0, (18 * 60) - (d.out_hour * 60 + d.out_minute))

attendance_status(d) ==
    IF check_in_minute(d) > 30 /\ check_in_hour(d) = 9 THEN "late"
    ELSE IF d.out_hour < 18 THEN "early_leave"
    ELSE d.status_pick

work_hours_reversed(check_out_time, check_in_time) ==
    Round(DeltaSeconds(check_in_time, check_out_time) * 100, 3600, 0)

\* round(seconds / 3600, 2), in hundredths of an hour.  seconds is a whole
\* number of minutes, and 100 * 60 * m / 3600 = 5 * m / 3 is never half way.
work_hours(check_out_time, check_in_time) ==
    Round(DeltaSeconds(check_out_time, check_in_time) * 100, 3600, 0)

attendance(t, d) ==
    LET attendance_date == PlusDays(t, 0 - d.day_back)
        check_in_time   == Replace(attendance_date, check_in_hour(d), check_in_minute(d))
        check_out_time  == Replace(attendance_date, d.out_hour, d.out_minute)
    IN  [ table         |-> "generate_attendance",
          emp_no        |-> EmpNo(d.emp),
          date          |-> StrfYmd(attendance_date),
          check_in      |-> StrfHMS(check_in_time),
          check_out     |-> StrfHMS(check_out_time),
          work_hours    |-> work_hours(check_out_time, check_in_time),
          status        |-> attendance_status(d),
          late_minutes  |-> late_minutes(d),
          early_minutes |-> early_minutes(d) ]

AttendanceRow(D, C) ==
    /\ Running("generate_attendance")
    /\ \E d \in D, t \in Readings(C) :
          /\ now' = t
          /\ rec' = [r \in DOMAIN now |-> attendance(t[r], d)]
    /\ i' = i + 1
    /\ UNCHANGED <<entry, pc, gen, count, files, summary, caught>>

(***************************************************************************)
(* 4. generate_annual_leaves.  used is round(uniform(0, total), 1) in      *)
(* tenths of a day: any multiple of 0.1 from 0 to total.                   *)
(***************************************************************************)
LeaveTotals == {5, 7, 10, 12, 15}

LeaveDraws(totals) ==
    UNION { { [total_days |-> tot, used_days |-> u] : u \in 0..(tot * 10) } : tot \in totals }

\* round(used_days * share, 1) for share 0.6 or 0.2, in tenths: share6 * used / 10
\* is never half way (6 * used and 2 * used are even, 5 is odd)
leave_share(used, share) == Round(used * share, 10, 0)

annual_leave(k, d) ==
    [ table      |-> "generate_annual_leaves",
      emp_no     |-> EmpNo(k + 1),
      year       |-> 2024,
      total_days |-> d.total_days,
      used_days  |-> d.used_days,
      remaining  |-> d.total_days * 10 - d.used_days,
      annual     |-> leave_share(d.used_days, 6),
      sick       |-> leave_share(d.used_days, 2),
      personal   |-> leave_share(d.used_days, 2) ]

AnnualLeavesRow(D) ==
    /\ Running("generate_annual_leaves")
    /\ \E d \in D :
          rec' = [r \in DOMAIN now |-> annual_leave(i, d)]
    /\ i' = i + 1
    /\ UNCHANGED <<entry, pc, gen, count, files, summary, caught, now>>

(***************************************************************************)
(* 5. generate_social_security.  Rates are in thousandths of the base,     *)
(* amounts in cents: round(base * rate, 2) is base * permille / 10 cents.  *)
(***************************************************************************)
BaseAmounts == {5000, 6000, 8000, 10000, 12000, 15000, 20000}

SocialDraws(bases, backs) == [ base_amount : bases, day_back : backs ]

contribution(base_amount, permille) == Round(base_amount * permille, 10, 0)

total_company_without_injury(c) ==
    c.pension_company + c.medical_company + c.unemployment_company
      + c.maternity_company + c.housing_fund_company

total_company(c) ==
    c.pension_company + c.medical_company + c.unemployment_company
      + c.injury_company + c.maternity_company + c.housing_fund_company

total_personal(c) ==
    c.pension_personal + c.medical_personal + c.unemployment_personal
      + c.housing_fund_personal

contributions(base_amount) ==
    [ pension_company       |-> contribution(base_amount, 160),
      pension_personal      |-> contribution(base_amount, 80),
      medical_company       |-> contribution(base_amount, 100),
      medical_personal      |-> contribution(base_amount, 20),
      unemployment_company  |-> contribution(base_amount, 7),
      unemployment_personal |-> contribution(base_amount, 3),
      injury_company        |-> contribution(base_amount, 5),
      maternity_company     |-> contribution(base_amount, 8),
      housing_fund_company  |-> contribution(base_amount, 120),
      housing_fund_personal |-> contribution(base_amount, 120) ]

social_security(k, t, d) ==
    LET c == contributions(d.base_amount)
    IN  [ table          |-> "generate_social_security",
          emp_no         |-> EmpNo(k + 1),
          year_month     |-> StrfYm(PlusDays(t, 0 - d.day_back)),
          base_amount    |-> d.base_amount,
          lines          |-> c,
          total_company  |-> total_company(c),
          total_personal |-> total_personal(c),
          total          |-> total_company(c) + total_personal(c) ]

SocialSecurityRow(D, C) ==
    /\ Running("generate_social_security")
    /\ \E d \in D, t \in Readings(C) :
          /\ now' = t
          /\ rec' = [r \in DOMAIN now |-> social_security(i, t[r], d)]
    /\ i' = i + 1
    /\ UNCHANGED <<entry, pc, gen, count, files, summary, caught>>

(***************************************************************************)
(* 6. generate_business_trips.  The calls of datetime.now() inside one     *)
(* iteration are taken at the same reading t.                              *)
(***************************************************************************)
DailyAllowances == {200, 300, 400, 500}

TripDraws(offs, dayss, dailies, rooms, fares, foods, emps) ==
    [ start_off : offs, days : dayss, daily_allowance : dailies, room_rate : rooms,
      transportation : fares, meal_rate : foods, emp : emps ]

trip_total_without_days(daily_allowance, days, accommodation, transportation, meal) ==
    daily_allowance + accommodation + transportation + meal

trip_total(daily_allowance, days, accommodation, transportation, meal) ==
    daily_allowance * days + accommodation + transportation + meal

business_trip(k, t, d) ==
    LET start_date    == random_date(PlusDays(t, 0 - 90), t, d.start_off)
        end_date      == PlusDays(start_date, d.days)
        accommodation == d.room_rate * d.days
        meal          == d.meal_rate * d.days
    IN  [ table           |-> "generate_business_trips",
          trip_no         |-> <<"B", "T">> \o StrfYmCompact(t) \o ZFill(Str(k + 1), 4),
          emp_no          |-> EmpNo(d.emp),
          start_date      |-> StrfYmd(start_date),
          end_date        |-> StrfYmd(end_date),
          days            |-> d.days,
          daily_allowance |-> d.daily_allowance,
          accommodation   |-> accommodation,
          transportation  |-> d.transportation,
          meal            |-> meal,
          total           |-> trip_total(d.daily_allowance, d.days, accommodation,
                                         d.transportation, meal),
          submit_date     |-> StrfYmd(start_date) ]

\* randrange(days_between) yields 0 .. days_between - 1
BusinessTripsRow(D, C) ==
    /\ Running("generate_business_trips")
    /\ \E d \in D, t \in Readings(C) :
          /\ \A r \in DOMAIN now : d.start_off < days_between(PlusDays(t[r], 0 - 90), t[r])
          /\ now' = t
          /\ rec' = [r \in DOMAIN now |-> business_trip(i, t[r], d)]
    /\ i' = i + 1
    /\ UNCHANGED <<entry, pc, gen, count, files, summary, caught>>

(***************************************************************************)
(* 7. generate_meal_records.  Prices are in cents; original is             *)
(* round(uniform(lo, hi), 2): any cent from lo to hi.  The discount is in  *)
(* tenths.  original * 0.5 is half way between two cents for an odd        *)
(* original, and the float product then falls on either side: d.up.        *)
(***************************************************************************)
meal_types ==
    [ breakfast |-> <<5, 15>>, lunch |-> <<15, 30>>, dinner |-> <<15, 35>> ]

Discounts == {5, 6, 8}

PriceRange(meal_type) ==
    (meal_types[meal_type][1] * 100)..(meal_types[meal_type][2] * 100)

\* prices: the cents to draw from, within the range of the meal type
MealDraws(types, prices, discounts, ups, backs, emps) ==
    UNION { [ meal_type : {m}, original : PriceRange(m) \cap prices, discount : discounts,
              up : ups, day_back : backs, emp : emps ] : m \in types }

subsidy(original_amount, discount, up) == Round(original_amount * discount, 10, up)

meal_record_paid_by_rate(t, d) ==
    [ table    |-> "generate_meal_records",
      emp_no   |-> EmpNo(d.emp),
      date     |-> StrfYmd(PlusDays(t, 0 - d.day_back)),
      type     |-> d.meal_type,
      original |-> d.original,
      subsidy  |-> subsidy(d.original, d.discount, d.up),
      actual   |-> Round(d.original * (10 - d.discount), 10, d.up) ]

meal_record(t, d) ==
    LET sub == subsidy(d.original, d.discount, d.up)
    IN  [ table    |-> "generate_meal_records",
          emp_no   |-> EmpNo(d.emp),
          date     |-> StrfYmd(PlusDays(t, 0 - d.day_back)),
          type     |-> d.meal_type,
          original |-> d.original,
          subsidy  |-> sub,
          actual   |-> d.original - sub ]

MealRecordsRow(D, C) ==
    /\ Running("generate_meal_records")
    /\ \E d \in D, t \in Readings(C) :
          /\ now' = t
          /\ rec' = [r \in DOMAIN now |-> meal_record(t[r], d)]
    /\ i' = i + 1
    /\ UNCHANGED <<entry, pc, gen, count, files, summary, caught>>

(***************************************************************************)
(* 8. generate_onboarding.                                                 *)
(***************************************************************************)
OnboardingDraws(offs, dones, afters) ==
    [ created_off : offs, done : dones, done_after : afters ]

onboarding(k, t, d) ==
    LET created_date == random_date(PlusDays(t, 0 - 60), t, d.created_off)
    IN  [ table     |-> "generate_onboarding",
          emp_no    |-> EmpNo(k + 1),
          push_time |-> StrfFull(created_date),
          form_done |-> IF d.done THEN StrfFull(PlusDays(created_date, d.done_after))
                                  ELSE <<>>,
          created   |-> StrfFull(created_date) ]

OnboardingRow(D, C) ==
    /\ Running("generate_onboarding")
    /\ \E d \in D, t \in Readings(C) :
          /\ \A r \in DOMAIN now : d.created_off < days_between(PlusDays(t[r], 0 - 60), t[r])
          /\ now' = t
          /\ rec' = [r \in DOMAIN now |-> onboarding(i, t[r], d)]
    /\ i' = i + 1
    /\ UNCHANGED <<entry, pc, gen, count, files, summary, caught>>

(***************************************************************************)
(* The end of a generator: DataFrame(rows).to_excel(file), print, return.  *)
(* Back in main() the next generator is called, or the summary printed.    *)
(***************************************************************************)
Written(complete) ==
    [table |-> GENERATORS[gen], rows |-> i, complete |-> complete]

Write ==
    /\ pc = "gen"
    /\ i = count
    /\ files' = Append(files, Written(TRUE))
    /\ IF entry # "main"
         THEN /\ pc' = "returned"
              /\ UNCHANGED <<gen, count, i, rec>>
         ELSE IF HasNext(gen)
                THEN /\ gen' = NextGenerator(gen)
                     /\ count' = CountOf(GENERATORS[NextGenerator(gen)])
                     /\ i' = 0
                     /\ rec' = [r \in DOMAIN now |-> NoRec]
                     /\ pc' = pc
                ELSE /\ pc' = "summary"
                     /\ UNCHANGED <<gen, count, i, rec>>
    /\ UNCHANGED <<entry, summary, caught, now>>

\* an exception inside the generator: in the loop no file exists yet; in
\* to_excel the file may or may not have been created
Raise ==
    /\ pc = "gen"
    /\ \E exc \in Raised, created \in BOOLEAN :
          /\ files' = IF created /\ i = count
                        THEN Append(files, Written(FALSE))
                        ELSE files
          /\ IF entry = "main" /\ Catches(exc)
               THEN pc' = "returned" /\ caught' = TRUE
               ELSE pc' = "raised" /\ caught' = caught
    /\ UNCHANGED <<entry, gen, count, i, rec, summary, now>>

\* the tail of main()'s try block
PrintSummary ==
    /\ pc = "summary"
    /\ summary' = TRUE
    /\ pc' = "returned"
    /\ UNCHANGED <<entry, gen, count, i, rec, files, caught, now>>

(***************************************************************************)
(* main(): one run.  The ranges the claims about main() do not turn on are *)
(* sampled at an end; the employee number drawn by randint(1, 20) is not.  *)
(***************************************************************************)
OneRun == {1}

EmployeeRangeFromZero == 0..20

\* random.randint(1, 20), the employee number of a row that is not numbered
\* by the loop
EmployeeRange == 1..20

\* the first and the last value of the clock
MainClocks ==
    { c \in Clocks : \/ c = ProcessStart
                     \/ c.ord = FirstDay + MaxClockDays - 1 /\ c.hour = 23 }

MainDepartmentDraws == DepartmentDraws(Ends(0, days_between(FoundedFrom, FoundedTo) - 1))

MainAttendanceDraws == AttendanceDraws({1}, {60}, {17}, {45}, {"normal"}, EmployeeRange)

MainLeaveDraws == { d \in LeaveDraws(LeaveTotals) : d.used_days \in {0, d.total_days * 10} }

MainSocialDraws == SocialDraws(Ends(5000, 20000), Ends(0, 180))

MainTripDraws == TripDraws({89}, {7}, {200}, {200}, {500}, {100}, EmployeeRange)

MainMealDraws == MealDraws({"lunch"}, {1500}, {8}, {0}, {1}, EmployeeRange)

MainOnboardingDraws == OnboardingDraws(Ends(0, 59), BOOLEAN, {7})

Init == InitCall("main", {Count}, OneRun, {ProcessStart})

Next ==
    \/ EmployeesRow
    \/ DepartmentsRow(MainDepartmentDraws)
    \/ AttendanceRow(MainAttendanceDraws, MainClocks)
    \/ AnnualLeavesRow(MainLeaveDraws)
    \/ SocialSecurityRow(MainSocialDraws, MainClocks)
    \/ BusinessTripsRow(MainTripDraws, MainClocks)
    \/ MealRecordsRow(MainMealDraws, MainClocks)
    \/ OnboardingRow(MainOnboardingDraws, MainClocks)
    \/ Write
    \/ Raise
    \/ PrintSummary

Spec == Init /\ [][Next]_vars

(***************************************************************************)
(* generate_employees(count) called on its own.                            *)
(***************************************************************************)
EmployeeCounts == (0..MaxCount) \cup {Count, 10^IdWidth - 1}

\* generate_employees never reads the clock: one starting time is enough
InitEmployees == InitCall("generate_employees", EmployeeCounts, OneRun, {ProcessStart})

NextEmployees == EmployeesRow \/ Write

SpecEmployees == InitEmployees /\ [][NextEmployees]_vars

(***************************************************************************)
(* Two runs of main() from the same seed, each with its own clock.         *)
(***************************************************************************)
TwoRuns == {1, 2}

InitTwoRuns == InitCall("main", {Count}, TwoRuns, MainClocks)

SpecTwoRuns == InitTwoRuns /\ [][Next]_vars

(***************************************************************************)
(* The other generators called on their own.  Rows are built one by one    *)
(* and independently, so the calls whose draws are enumerated in full      *)
(* build at most one row.                                                  *)
(***************************************************************************)
OneRow == 0..1

AllAttendanceDraws ==
    AttendanceDraws(Ends(1, 30), 0..60, 17..18, 0..59, {"normal", "leave"}, Ends(1, 20))

InitAttendance == InitCall("generate_attendance", OneRow, OneRun, Clocks)

NextAttendance == AttendanceRow(AllAttendanceDraws, Clocks) \/ Write

SpecAttendance == InitAttendance /\ [][NextAttendance]_vars

InitLeaves == InitCall("generate_annual_leaves", 0..MaxCount, OneRun, {ProcessStart})

NextLeaves == AnnualLeavesRow(LeaveDraws(LeaveTotals)) \/ Write

SpecLeaves == InitLeaves /\ [][NextLeaves]_vars

AllSocialDraws == SocialDraws(BaseAmounts, {0, 30, 90, 180})

InitSocial == InitCall("generate_social_security", 0..MaxCount, OneRun, Clocks)

NextSocial == SocialSecurityRow(AllSocialDraws, Clocks) \/ Write

SpecSocial == InitSocial /\ [][NextSocial]_vars

AllTripDraws ==
    TripDraws(0..89, 1..7, DailyAllowances, Ends(200, 800), Ends(500, 2000),
              Ends(100, 300), {20})

InitTrips == InitCall("generate_business_trips", OneRow, OneRun, Clocks)

NextTrips == BusinessTripsRow(AllTripDraws, Clocks) \/ Write

SpecTrips == InitTrips /\ [][NextTrips]_vars

AllMealDraws ==
    MealDraws(DOMAIN meal_types, 500..3500, Discounts, {0, 1}, Ends(1, 30), {1})

InitMeals == InitCall("generate_meal_records", OneRow, OneRun, MainClocks)

NextMeals == MealRecordsRow(AllMealDraws, MainClocks) \/ Write

SpecMeals == InitMeals /\ [][NextMeals]_vars

(***************************************************************************)
(* Reading the written text back: a decimal numeral, a time HH:MM:SS, a    *)
(* date YYYY-MM-DD.                                                        *)
(***************************************************************************)
IsDigit(c) == \E k \in 1..10 : Digits[k] = c

DigitValue(c) == (CHOOSE k \in 1..10 : Digits[k] = c) - 1

RECURSIVE Decimal(_)
Decimal(s) ==
    IF Len(s) = 0 THEN 0
    ELSE 10 * Decimal(SubSeq(s, 1, Len(s) - 1)) + DigitValue(s[Len(s)])

IsNumeral(s) == \A k \in 1..Len(s) : IsDigit(s[k])

\* the number n behind the text EMPdddd, or 0 when the text is not of that form
EmployeeNumber(s) ==
    IF /\ Len(s) = 7
       /\ SubSeq(s, 1, 3) = <<"E", "M", "P">>
       /\ IsNumeral(SubSeq(s, 4, 7))
    THEN Decimal(SubSeq(s, 4, 7))
    ELSE 0

MinuteOfDay(hms) == Decimal(SubSeq(hms, 1, 2)) * 60 + Decimal(SubSeq(hms, 4, 5))

SecondOfDayText(hms) == MinuteOfDay(hms) * 60 + Decimal(SubSeq(hms, 7, 8))

DateNumber(ymd) ==
    Decimal(SubSeq(ymd, 1, 4)) * 10000 + Decimal(SubSeq(ymd, 6, 7)) * 100
      + Decimal(SubSeq(ymd, 9, 10))

Abs(x) == IF x < 0 THEN 0 - x ELSE x

\* v is num/den rounded to the nearest integer
Nearest(v, num, den) == 2 * Abs(v * den - num) <= den

RowsOf(table) == { rec[r] : r \in { x \in DOMAIN rec : rec[x].table = table } }

(***************************************************************************)
(* The claims.                                                             *)
(***************************************************************************)

\* C1: two runs of main() from the same seed hold the same rows in every
\* table, whatever the wall-clock time of each run.
C1_SameSeedSameRows == \A a, b \in DOMAIN rec : rec[a] = rec[b]

C3_SocialTotals ==
    \A x \in RowsOf("generate_social_security") :
        LET c == x.lines
            b == x.base_amount
        IN  /\ b \in {5000, 6000, 8000, 10000, 12000, 15000, 20000}
            /\ Nearest(c.pension_company, b * 16, 1)
            /\ Nearest(c.medical_company, b * 10, 1)
            /\ Nearest(c.unemployment_company, b * 7, 10)
            /\ Nearest(c.injury_company, b * 5, 10)
            /\ Nearest(c.maternity_company, b * 8, 10)
            /\ Nearest(c.housing_fund_company, b * 12, 1)
            /\ Nearest(c.pension_personal, b * 8, 1)
            /\ Nearest(c.medical_personal, b * 2, 1)
            /\ Nearest(c.unemployment_personal, b * 3, 10)
            /\ Nearest(c.housing_fund_personal, b * 12, 1)
            /\ x.total_company =
                 c.pension_company + c.medical_company + c.unemployment_company
                   + c.injury_company + c.maternity_company + c.housing_fund_company
            /\ x.total_personal =
                 c.pension_personal + c.medical_personal + c.unemployment_personal
                   + c.housing_fund_personal
            /\ x.total = x.total_company + x.total_personal

C3_Witness ==
    \E x \in RowsOf("generate_social_security") :
        /\ x.base_amount = 15000
        /\ x.lines.unemployment_company = 10500
        /\ x.total_company = 600000
        /\ x.total_personal = 334500
        /\ x.total = 934500

\* C4: in every annual-leave row the three category subtotals (used x 0.6,
\* used x 0.2, used x 0.2, each rounded to one decimal) sum to the used
\* total.
C4_LeaveSplitSumsToUsed ==
    \A x \in RowsOf("generate_annual_leaves") :
        x.annual + x.sick + x.personal = x.used_days

\* C5: in every business-trip row the total is daily allowance x days +
\* accommodation + transportation + meal, accommodation and meal are a
\* per-day rate (200..800, 100..300) times the days, the days are 1..7 and
\* the end date is not earlier than the start date.
C5_TripTotals ==
    \A x \in RowsOf("generate_business_trips") :
        /\ x.days >= 1
        /\ x.days <= 7
        /\ x.total = x.daily_allowance * x.days + x.accommodation
                       + x.transportation + x.meal
        /\ x.accommodation % x.days = 0
        /\ x.accommodation \div x.days \in 200..800
        /\ x.meal % x.days = 0
        /\ x.meal \div x.days \in 100..300
        /\ DateNumber(x.end_date) >= DateNumber(x.start_date)

C5_Witness ==
    \E x \in RowsOf("generate_business_trips") :
        /\ x.days = 7
        /\ x.start_date = <<"2", "0", "2", "5", "-", "1", "2", "-", "2", "9">>
        /\ x.end_date = <<"2", "0", "2", "6", "-", "0", "1", "-", "0", "5">>
        /\ x.total = 500 * 7 + 800 * 7 + 2000 + 300 * 7

\* C6: in every meal row the price is within the range of the meal type,
\* the subsidy is the price times a discount of 0.5, 0.6 or 0.8 rounded to
\* the cent, the amount paid is price - subsidy, and the subsidy is less
\* than the price.
C6_MealAmounts ==
    \A x \in RowsOf("generate_meal_records") :
        /\ x.type \in {"breakfast", "lunch", "dinner"}
        /\ x.original >= (CASE x.type = "breakfast" -> 500
                            [] x.type = "lunch" -> 1500
                            [] x.type = "dinner" -> 1500)
        /\ x.original <= (CASE x.type = "breakfast" -> 1500
                            [] x.type = "lunch" -> 3000
                            [] x.type = "dinner" -> 3500)
        /\ \E f \in {5, 6, 8} : Nearest(x.subsidy, x.original * f, 10)
        /\ x.actual = x.original - x.subsidy
        /\ x.subsidy < x.original
        /\ x.actual > 0

C6_Witness ==
    \E x \in RowsOf("generate_meal_records") :
        /\ x.type = "breakfast"
        /\ x.original = 501
        /\ x.subsidy = 251
        /\ x.actual = 250

\* C7: in every attendance row the worked hours are the time from the
\* recorded check-in to the recorded check-out of the day, in hours rounded
\* to 2 decimals, and are not negative: check-out is never before check-in.
C7_WorkedHours ==
    \A x \in RowsOf("generate_attendance") :
        LET elapsed == SecondOfDayText(x.check_out) - SecondOfDayText(x.check_in)
        IN  /\ elapsed >= 0
            /\ x.work_hours >= 0
            /\ Nearest(x.work_hours, elapsed * 100, 3600)

C7_Witness ==
    \E x \in RowsOf("generate_attendance") :
        /\ x.check_in = <<"0", "9", ":", "3", "0", ":", "5", "9">>
        /\ x.check_out = <<"1", "7", ":", "3", "0", ":", "5", "9">>
        /\ x.work_hours = 800

\* C8: generate_employees(count) yields count rows; row number n carries
\* EMP followed by n zero-padded to 4 digits (so the numbers of two rows
\* differ, as their positions do); the department is one of the 8 and the
\* position is one of that department's positions.
C8_EmployeeRows ==
    /\ \A x \in RowsOf("generate_employees") :
          /\ i >= 1
          /\ EmployeeNumber(x.emp_no) = i
          /\ x.department \in Range(DEPARTMENTS)
          /\ x.position \in Range(POSITIONS_BY_DEPT[x.department])
    /\ Len(DEPARTMENTS) = 8
    /\ \A k \in 1..Len(files) :
          files[k].table = "generate_employees" => files[k].rows = count

C8_Witness ==
    /\ entry = "generate_employees"
    /\ count = 9999
    /\ pc = "returned"
    /\ files[1].rows = 9999
    /\ rec[1].emp_no = <<"E", "M", "P", "9", "9", "9", "9">>
    /\ rec[1].department = "Sales"
    /\ rec[1].position = "SalesDirector"

\* C9: in every attendance row the lateness is max(0, minutes of the
\* recorded check-in after 08:30) and the early leave is max(0, minutes of
\* the recorded check-out before 18:00).
C9_LateAndEarlyMinutes ==
    \A x \in RowsOf("generate_attendance") :
        /\ x.late_minutes = Max(0, MinuteOfDay(x.check_in) - (8 * 60 + 30))
        /\ x.early_minutes = Max(0, 18 * 60 - MinuteOfDay(x.check_out))

\* C10: in a run of main() every employee number written to the attendance,
\* leave, social-security, trip, meal and onboarding tables is one of
\* EMP0001..EMP0020 and so the number of a row of the employee table (which
\* holds 20 rows, numbered by position); the tables numbered by the loop
\* hold 20 rows, the row at position n carrying number n.
C10_EmployeeNumbersResolve ==
    LET numbered == {"generate_annual_leaves", "generate_social_security",
                     "generate_onboarding"}
        drawn    == {"generate_attendance", "generate_business_trips",
                     "generate_meal_records"}
    IN  /\ \A x \in UNION { RowsOf(t) : t \in numbered \cup drawn } :
              /\ EmployeeNumber(x.emp_no) \in 1..20
              /\ files[1].table = "generate_employees"
              /\ files[1].complete
              /\ EmployeeNumber(x.emp_no) <= files[1].rows
              /\ x.table \in numbered => EmployeeNumber(x.emp_no) = i
        /\ \A k \in 1..Len(files) :
              files[k].complete /\ files[k].table \in numbered \cup {"generate_employees"}
                => files[k].rows = 20

C10_Witness ==
    /\ Len(files) = 6
    /\ files[4].table = "generate_annual_leaves"
    /\ files[4].rows = 20
    /\ rec[1].table = "generate_meal_records"
    /\ i = 3
    /\ rec[1].emp_no = <<"E", "M", "P", "0", "0", "2", "0">>

====
